---- MODULE Spec2Model ----
(***************************************************************************)
(* velas-address-rust: conversion between the hex form ("0x" + 40 hex      *)
(* digits) and the checksummed base58 form ("V" + 33 base58 digits) of a   *)
(* 20-byte account identifier (src/src/lib.rs).                            *)
(*                                                                         *)
(* The library is two pure functions, eth_to_vlx and vlx_to_eth.  The      *)
(* model is a caller that invokes them: with an input drawn from a finite  *)
(* set, with the other function's result (a round trip), or with a         *)
(* decoder input to which more '1' padding was added.  The state records   *)
(* the last call and the call before it.                                   *)
(*                                                                         *)
(* A string is the sequence of its bytes; every input is ASCII, so a byte  *)
(* is a character.  The result of a call is Ok(string), Err(message) or a  *)
(* panic (an unwrap() on None/Err aborts the call).                        *)
(***************************************************************************)
EXTENDS Integers, Sequences, FiniteSets, TLC

(***************************************************************************)
(* Program constants.                                                      *)
(***************************************************************************)
\* lib.rs:106  `match_addr.len() > 40`: hex digits of a 20-byte identifier
IdHexLen == 40
\* lib.rs:48, 119  `hash_big.get(0..8)` and lib.rs:96 `{8}`: checksum digits
ChecksumLen == 8
\* lib.rs:59  `encode.len() < 33`: padded length of the base58 payload
PadLen == 33
\* lib.rs:100  `caps.len() != 3`: the whole match and the two groups
CapsLen == 3

\* lib.rs:35, 39, 44, 50, 77, 81, 86, 91, 101, 111, 114, 121
InvalidFormat == "Invalid address"
\* lib.rs:125
ChecksumMismatch == "Invalid checksum"

Ok(s) == [kind |-> "Ok", val |-> s, err |-> ""]
Err(e) == [kind |-> "Err", val |-> <<>>, err |-> e]
\* unwrap() on an Err/None value (lib.rs:55, 98): the call does not return
Panic == [kind |-> "Panic", val |-> <<>>, err |-> "unwrap"]

(***************************************************************************)
(* Characters (ASCII).                                                     *)
(***************************************************************************)
Ch0 == 48
Ch1 == 49
Ch9 == 57
ChV == 86
ChUpperA == 65
ChUpperF == 70
ChUpperZ == 90
ChLowerA == 97
ChLowerF == 102
ChLowerX == 120

\* basex_rs::BITCOIN (lib.rs:13): the base58 alphabet, '1' is digit zero
\* "123456789ABCDEFGHJKLMNPQRSTUVWXYZabcdefghijkmnopqrstuvwxyz"
BITCOIN ==
    <<49, 50, 51, 52, 53, 54, 55, 56, 57, 65, 66, 67, 68, 69, 70, 71, 72,
    74, 75, 76, 77, 78, 80, 81, 82, 83, 84, 85, 86, 87, 88, 89, 90, 97,
    98, 99, 100, 101, 102, 103, 104, 105, 106, 107, 109, 110, 111, 112, 113, 114, 115,
    116, 117, 118, 119, 120, 121, 122>>

\* str::repeat (lib.rs:60, 108): n copies of the character c
Repeat(c, n) == [i \in 1..n |-> c]

\* a faulty starts_with: only the first character is compared
first_char_is(s, p) == Len(s) >= 1 /\ Len(p) >= 1 /\ s[1] = p[1]
\* str::starts_with (lib.rs:38, 80, 108)
starts_with(s, p) == Len(s) >= Len(p) /\ SubSeq(s, 1, Len(p)) = p

\* str::get(from..s.len()) (lib.rs:42, 84, 109): always Some on ASCII
get_from(s, from) == SubSeq(s, from + 1, Len(s))

LowerChar(c) == IF c >= ChUpperA /\ c <= ChUpperZ THEN c + (ChLowerA - ChUpperA) ELSE c
\* a faulty to_lowercase: the text is left as it is
keep_case(s) == s
\* str::to_lowercase (lib.rs:43)
to_lowercase(s) == [i \in 1..Len(s) |-> LowerChar(s[i])]

(***************************************************************************)
(* hex::encode and hex::decode (lib.rs:55, 94).                            *)
(***************************************************************************)
IsDigit(c) == c >= Ch0 /\ c <= Ch9
IsLowerHex(c) == IsDigit(c) \/ (c >= ChLowerA /\ c <= ChLowerF)
IsHex(c) == IsLowerHex(c) \/ (c >= ChUpperA /\ c <= ChUpperF)
HexVal(c) == IF IsDigit(c) THEN c - Ch0
             ELSE IF c >= ChLowerA THEN c - ChLowerA + 10 ELSE c - ChUpperA + 10
HexDigit(n) == IF n < 10 THEN Ch0 + n ELSE ChLowerA + (n - 10)

\* hex::encode: two lowercase digits per byte
hex_encode(bytes) ==
    [i \in 1..(2 * Len(bytes)) |->
        IF i % 2 = 1 THEN HexDigit(bytes[(i + 1) \div 2] \div 16)
                     ELSE HexDigit(bytes[i \div 2] % 16)]

\* hex::decode: Err on an odd length or on a character that is no hex digit
hex_decode(s) ==
    IF Len(s) % 2 # 0 \/ (\E i \in 1..Len(s) : ~IsHex(s[i]))
    THEN [ok |-> FALSE, bytes |-> <<>>]
    ELSE [ok |-> TRUE,
          bytes |-> [i \in 1..(Len(s) \div 2) |->
                        16 * HexVal(s[2 * i - 1]) + HexVal(s[2 * i])]]

(***************************************************************************)
(* SHA-256 (bitcoin_hashes::sha256, lib.rs:14, 21), FIPS 180-4.  A 32-bit  *)
(* word is the tuple of its four bytes, most significant first.            *)
(***************************************************************************)
XorNib == <<
    << 0,  1,  2,  3,  4,  5,  6,  7,  8,  9, 10, 11, 12, 13, 14, 15>>,
    << 1,  0,  3,  2,  5,  4,  7,  6,  9,  8, 11, 10, 13, 12, 15, 14>>,
    << 2,  3,  0,  1,  6,  7,  4,  5, 10, 11,  8,  9, 14, 15, 12, 13>>,
    << 3,  2,  1,  0,  7,  6,  5,  4, 11, 10,  9,  8, 15, 14, 13, 12>>,
    << 4,  5,  6,  7,  0,  1,  2,  3, 12, 13, 14, 15,  8,  9, 10, 11>>,
    << 5,  4,  7,  6,  1,  0,  3,  2, 13, 12, 15, 14,  9,  8, 11, 10>>,
    << 6,  7,  4,  5,  2,  3,  0,  1, 14, 15, 12, 13, 10, 11,  8,  9>>,
    << 7,  6,  5,  4,  3,  2,  1,  0, 15, 14, 13, 12, 11, 10,  9,  8>>,
    << 8,  9, 10, 11, 12, 13, 14, 15,  0,  1,  2,  3,  4,  5,  6,  7>>,
    << 9,  8, 11, 10, 13, 12, 15, 14,  1,  0,  3,  2,  5,  4,  7,  6>>,
    <<10, 11,  8,  9, 14, 15, 12, 13,  2,  3,  0,  1,  6,  7,  4,  5>>,
    <<11, 10,  9,  8, 15, 14, 13, 12,  3,  2,  1,  0,  7,  6,  5,  4>>,
    <<12, 13, 14, 15,  8,  9, 10, 11,  4,  5,  6,  7,  0,  1,  2,  3>>,
    <<13, 12, 15, 14,  9,  8, 11, 10,  5,  4,  7,  6,  1,  0,  3,  2>>,
    <<14, 15, 12, 13, 10, 11,  8,  9,  6,  7,  4,  5,  2,  3,  0,  1>>,
    <<15, 14, 13, 12, 11, 10,  9,  8,  7,  6,  5,  4,  3,  2,  1,  0>> >>
AndNib == <<
    << 0,  0,  0,  0,  0,  0,  0,  0,  0,  0,  0,  0,  0,  0,  0,  0>>,
    << 0,  1,  0,  1,  0,  1,  0,  1,  0,  1,  0,  1,  0,  1,  0,  1>>,
    << 0,  0,  2,  2,  0,  0,  2,  2,  0,  0,  2,  2,  0,  0,  2,  2>>,
    << 0,  1,  2,  3,  0,  1,  2,  3,  0,  1,  2,  3,  0,  1,  2,  3>>,
    << 0,  0,  0,  0,  4,  4,  4,  4,  0,  0,  0,  0,  4,  4,  4,  4>>,
    << 0,  1,  0,  1,  4,  5,  4,  5,  0,  1,  0,  1,  4,  5,  4,  5>>,
    << 0,  0,  2,  2,  4,  4,  6,  6,  0,  0,  2,  2,  4,  4,  6,  6>>,
    << 0,  1,  2,  3,  4,  5,  6,  7,  0,  1,  2,  3,  4,  5,  6,  7>>,
    << 0,  0,  0,  0,  0,  0,  0,  0,  8,  8,  8,  8,  8,  8,  8,  8>>,
    << 0,  1,  0,  1,  0,  1,  0,  1,  8,  9,  8,  9,  8,  9,  8,  9>>,
    << 0,  0,  2,  2,  0,  0,  2,  2,  8,  8, 10, 10,  8,  8, 10, 10>>,
    << 0,  1,  2,  3,  0,  1,  2,  3,  8,  9, 10, 11,  8,  9, 10, 11>>,
    << 0,  0,  0,  0,  4,  4,  4,  4,  8,  8,  8,  8, 12, 12, 12, 12>>,
    << 0,  1,  0,  1,  4,  5,  4,  5,  8,  9,  8,  9, 12, 13, 12, 13>>,
    << 0,  0,  2,  2,  4,  4,  6,  6,  8,  8, 10, 10, 12, 12, 14, 14>>,
    << 0,  1,  2,  3,  4,  5,  6,  7,  8,  9, 10, 11, 12, 13, 14, 15>> >>
XorByte(a, b) == 16 * XorNib[(a \div 16) + 1][(b \div 16) + 1] + XorNib[(a % 16) + 1][(b % 16) + 1]
AndByte(a, b) == 16 * AndNib[(a \div 16) + 1][(b \div 16) + 1] + AndNib[(a % 16) + 1][(b % 16) + 1]
WXor(x, y) == <<XorByte(x[1], y[1]), XorByte(x[2], y[2]), XorByte(x[3], y[3]), XorByte(x[4], y[4])>>
WAnd(x, y) == <<AndByte(x[1], y[1]), AndByte(x[2], y[2]), AndByte(x[3], y[3]), AndByte(x[4], y[4])>>
WNot(x) == <<255 - x[1], 255 - x[2], 255 - x[3], 255 - x[4]>>
\* the word of two 16-bit halves
Word(hi, lo) == <<(hi \div 256) % 256, hi % 256, (lo \div 256) % 256, lo % 256>>
\* the low half's carry goes to the high half; the high half's carry is dropped
Carry(hi, lo) == Word(hi + (lo \div 65536), lo)
\* addition modulo 2^32
WAdd(x, y) == Carry((256 * x[1] + x[2]) + (256 * y[1] + y[2]),
                    (256 * x[3] + x[4]) + (256 * y[3] + y[4]))
Pow2(n) == CASE n = 0 -> 1 [] n = 1 -> 2 [] n = 2 -> 4 [] n = 3 -> 8 [] n = 4 -> 16
             [] n = 5 -> 32 [] n = 6 -> 64 [] n = 7 -> 128 [] n = 8 -> 256
\* the byte made of the low `bits` bits of `left` and the high bits of `byte`
ShiftIn(left, byte, bits) == ((byte \div Pow2(bits)) + (left * Pow2(8 - bits))) % 256
\* rotate right by r bits: by whole bytes, then by the remaining bits
RotBytes(x, q) == <<x[((0 - q) % 4) + 1], x[((1 - q) % 4) + 1],
                    x[((2 - q) % 4) + 1], x[((3 - q) % 4) + 1]>>
RotBits(x, bits) == <<ShiftIn(x[4], x[1], bits), ShiftIn(x[1], x[2], bits),
                      ShiftIn(x[2], x[3], bits), ShiftIn(x[3], x[4], bits)>>
RotR(x, r) == RotBits(RotBytes(x, r \div 8), r % 8)
\* shift right by r bits: zero bytes and bits come in from the left
ShiftBytes(x, q) == <<IF q < 1 THEN x[1] ELSE 0, IF q < 2 THEN x[2 - q] ELSE 0,
                      IF q < 3 THEN x[3 - q] ELSE 0, IF q < 4 THEN x[4 - q] ELSE 0>>
ShiftBits(x, bits) == <<ShiftIn(0, x[1], bits), ShiftIn(x[1], x[2], bits),
                        ShiftIn(x[2], x[3], bits), ShiftIn(x[3], x[4], bits)>>
ShR(x, r) == ShiftBits(ShiftBytes(x, r \div 8), r % 8)
\* the round constants: fractional parts of the cube roots of the first 64 primes
K == <<
    <<66, 138, 47, 152>>, <<113, 55, 68, 145>>, <<181, 192, 251, 207>>, <<233, 181, 219, 165>>,
    <<57, 86, 194, 91>>, <<89, 241, 17, 241>>, <<146, 63, 130, 164>>, <<171, 28, 94, 213>>,
    <<216, 7, 170, 152>>, <<18, 131, 91, 1>>, <<36, 49, 133, 190>>, <<85, 12, 125, 195>>,
    <<114, 190, 93, 116>>, <<128, 222, 177, 254>>, <<155, 220, 6, 167>>, <<193, 155, 241, 116>>,
    <<228, 155, 105, 193>>, <<239, 190, 71, 134>>, <<15, 193, 157, 198>>, <<36, 12, 161, 204>>,
    <<45, 233, 44, 111>>, <<74, 116, 132, 170>>, <<92, 176, 169, 220>>, <<118, 249, 136, 218>>,
    <<152, 62, 81, 82>>, <<168, 49, 198, 109>>, <<176, 3, 39, 200>>, <<191, 89, 127, 199>>,
    <<198, 224, 11, 243>>, <<213, 167, 145, 71>>, <<6, 202, 99, 81>>, <<20, 41, 41, 103>>,
    <<39, 183, 10, 133>>, <<46, 27, 33, 56>>, <<77, 44, 109, 252>>, <<83, 56, 13, 19>>,
    <<101, 10, 115, 84>>, <<118, 106, 10, 187>>, <<129, 194, 201, 46>>, <<146, 114, 44, 133>>,
    <<162, 191, 232, 161>>, <<168, 26, 102, 75>>, <<194, 75, 139, 112>>, <<199, 108, 81, 163>>,
    <<209, 146, 232, 25>>, <<214, 153, 6, 36>>, <<244, 14, 53, 133>>, <<16, 106, 160, 112>>,
    <<25, 164, 193, 22>>, <<30, 55, 108, 8>>, <<39, 72, 119, 76>>, <<52, 176, 188, 181>>,
    <<57, 28, 12, 179>>, <<78, 216, 170, 74>>, <<91, 156, 202, 79>>, <<104, 46, 111, 243>>,
    <<116, 143, 130, 238>>, <<120, 165, 99, 111>>, <<132, 200, 120, 20>>, <<140, 199, 2, 8>>,
    <<144, 190, 255, 250>>, <<164, 80, 108, 235>>, <<190, 249, 163, 247>>, <<198, 113, 120, 242>> >>
\* the initial hash value: fractional parts of the square roots of the first 8 primes
H0 == <<
    <<106, 9, 230, 103>>, <<187, 103, 174, 133>>, <<60, 110, 243, 114>>, <<165, 79, 245, 58>>,
    <<81, 14, 82, 127>>, <<155, 5, 104, 140>>, <<31, 131, 217, 171>>, <<91, 224, 205, 25>> >>

BigSigma0(x) == WXor(WXor(RotR(x, 2), RotR(x, 13)), RotR(x, 22))
BigSigma1(x) == WXor(WXor(RotR(x, 6), RotR(x, 11)), RotR(x, 25))
SmallSigma0(x) == WXor(WXor(RotR(x, 7), RotR(x, 18)), ShR(x, 3))
SmallSigma1(x) == WXor(WXor(RotR(x, 17), RotR(x, 19)), ShR(x, 10))
Choose(x, y, z) == WXor(WAnd(x, y), WAnd(WNot(x), z))
Majority(x, y, z) == WXor(WXor(WAnd(x, y), WAnd(x, z)), WAnd(y, z))

\* the message schedule w extended by its next word
NextWord(w) ==
    Append(w, WAdd(WAdd(SmallSigma1(w[Len(w) - 1]), w[Len(w) - 6]),
                   WAdd(SmallSigma0(w[Len(w) - 14]), w[Len(w) - 15])))
RECURSIVE Schedule(_)
\* the 64 words of the message schedule, from the 16 words of a block (four
\* words a step, which keeps the recursion shallow)
Schedule(w) ==
    IF Len(w) >= 64 THEN w
    ELSE Schedule(NextWord(NextWord(NextWord(NextWord(w)))))
\* the working variables after a round, from those before it and T1, T2
NextVars(s, t1, t2) ==
    [h |-> s.g, g |-> s.f, f |-> s.e, e |-> WAdd(s.d, t1),
     d |-> s.c, c |-> s.b, b |-> s.a, a |-> WAdd(t1, t2)]
\* one round: from the working variables a..h to the next ones
Round(s, wt, kt) ==
    NextVars(s,
             WAdd(WAdd(WAdd(s.h, BigSigma1(s.e)), WAdd(Choose(s.e, s.f, s.g), kt)), wt),
             WAdd(BigSigma0(s.a), Majority(s.a, s.b, s.c)))
\* the rounds so far (the working variables before the first round and after
\* each round) extended by the next round
NextRound(states, w) ==
    Append(states, Round(states[Len(states)], w[Len(states)], K[Len(states)]))
RECURSIVE Rounds(_, _)
\* all 64 rounds (four rounds a step, which keeps the recursion shallow)
Rounds(states, w) ==
    IF Len(states) > Len(w) THEN states
    ELSE Rounds(NextRound(NextRound(NextRound(NextRound(states, w), w), w), w), w)
\* the hash value h (eight words) plus the working variables s
AddVars(h, s) ==
    <<WAdd(h[1], s.a), WAdd(h[2], s.b), WAdd(h[3], s.c), WAdd(h[4], s.d),
      WAdd(h[5], s.e), WAdd(h[6], s.f), WAdd(h[7], s.g), WAdd(h[8], s.h)>>
Last(s) == s[Len(s)]
\* the hash value h updated with one 64-byte block
Compress(h, bytes) ==
    AddVars(h, Last(Rounds(<<[a |-> h[1], b |-> h[2], c |-> h[3], d |-> h[4],
                              e |-> h[5], f |-> h[6], g |-> h[7], h |-> h[8]]>>,
                           Schedule([i \in 1..16 |-> SubSeq(bytes, 4 * i - 3, 4 * i)]))))
\* the message, the bit 1, zero bits up to 56 mod 64 bytes, the 64-bit bit length
\* (messages here are shorter than 2^13 bytes: two length bytes suffice)
Padded(msg) ==
    msg \o <<128>> \o Repeat(0, (55 - Len(msg)) % 64)
        \o <<0, 0, 0, 0, 0, 0, (8 * Len(msg)) \div 256, (8 * Len(msg)) % 256>>
RECURSIVE Blocks(_, _)
\* the hash value h updated with the 64-byte blocks of p
Blocks(h, p) ==
    IF Len(p) = 0 THEN h
    ELSE Blocks(Compress(h, SubSeq(p, 1, 64)), SubSeq(p, 65, Len(p)))
\* the eight words as 32 bytes
Digest(h) == h[1] \o h[2] \o h[3] \o h[4] \o h[5] \o h[6] \o h[7] \o h[8]
Sha256(msg) == Digest(Blocks(H0, Padded(msg)))

\* lib.rs:20-22: the digest, formatted as 64 lowercase hex digits
hash_sha256(byte) == hex_encode(Sha256(byte))

\* lib.rs:47-51, 118-122: the first 8 hex digits of the hash of the hex text
\* of the hash of the identifier's text
checksum_of(addr) == SubSeq(hash_sha256(hash_sha256(addr)), 1, ChecksumLen)

(***************************************************************************)
(* basex_rs::BaseX::new(BITCOIN) (lib.rs:57, 89): the base-x algorithm.    *)
(* encode keeps a little-endian base-58 number and, for each source byte,  *)
(* multiplies it by 256 and adds the byte; it then writes one '1' per      *)
(* leading zero byte (never for the last byte) and the digits, most        *)
(* significant first.  decode is its mirror image.                         *)
(***************************************************************************)
Base == Len(BITCOIN)

RECURSIVE MulAdd(_, _, _, _)
\* digits * mul + carry, in little-endian digits of the given base
MulAdd(digits, carry, mul, base) ==
    IF Len(digits) = 0
    THEN IF carry = 0 THEN <<>>
         ELSE <<carry % base>> \o MulAdd(<<>>, carry \div base, mul, base)
    ELSE LET c == carry + Head(digits) * mul
         IN <<c % base>> \o MulAdd(Tail(digits), c \div base, mul, base)

RECURSIVE Accumulate(_, _, _, _)
\* the little-endian number, in `base`, of the first n digits of source
Accumulate(source, n, mul, base) ==
    IF n = 0 THEN <<0>>
    ELSE MulAdd(Accumulate(source, n - 1, mul, base), source[n], mul, base)

RECURSIVE LeadingCount(_, _, _)
\* how many of the characters from position k on are c, the last one excepted
LeadingCount(source, c, k) ==
    IF k < Len(source) /\ source[k] = c THEN 1 + LeadingCount(source, c, k + 1) ELSE 0

Reverse(s) == [i \in 1..Len(s) |-> s[Len(s) + 1 - i]]

\* the characters of the digits, most significant first
DigitChars(digits) == [i \in 1..Len(digits) |-> BITCOIN[digits[Len(digits) + 1 - i] + 1]]

\* Encode::encode (lib.rs:57)
encode(source) ==
    IF Len(source) = 0 THEN <<>>
    ELSE Repeat(BITCOIN[1], LeadingCount(source, 0, 1))
             \o DigitChars(Accumulate(source, Len(source), 256, Base))

\* the position of character c in the alphabet, from 0; -1 when it is not in it
AlphabetIndex(c) ==
    IF \E i \in 1..Len(BITCOIN) : BITCOIN[i] = c
    THEN (CHOOSE i \in 1..Len(BITCOIN) : BITCOIN[i] = c) - 1
    ELSE -1

DigitValues(source) == [i \in 1..Len(source) |-> AlphabetIndex(source[i])]

\* Decode::decode (lib.rs:89): None on a character outside the alphabet
decode(source) ==
    IF \E i \in 1..Len(source) : AlphabetIndex(source[i]) < 0
    THEN [some |-> FALSE, bytes |-> <<>>]
    ELSE IF Len(source) = 0 THEN [some |-> TRUE, bytes |-> <<>>]
    ELSE [some |-> TRUE,
          bytes |-> Repeat(0, LeadingCount(source, BITCOIN[1], 1))
                        \o Reverse(Accumulate(DigitValues(source), Len(source), Base, 256))]

(***************************************************************************)
(* Regex::new(r"([0-9abcdef]+)([0-9abcdef]{8})").captures (lib.rs:96-98):  *)
(* the leftmost match; group 1 is greedy, so the match runs to the end of  *)
(* the run of hex digits it starts in and group 2 is the run's last 8.     *)
(***************************************************************************)
captures(hex) ==
    LET starts == {i \in 1..(Len(hex) - ChecksumLen) :
                      \A j \in i..(i + ChecksumLen) : IsLowerHex(hex[j])}
    IN IF starts = {} THEN [matched |-> FALSE, len |-> 0, g1 |-> <<>>, g2 |-> <<>>]
       ELSE LET from == CHOOSE i \in starts : \A j \in starts : i <= j
                to == CHOOSE e \in from..Len(hex) :
                          /\ \A j \in from..e : IsLowerHex(hex[j])
                          /\ (e = Len(hex) \/ ~IsLowerHex(hex[e + 1]))
            IN [matched |-> TRUE, len |-> CapsLen,
                g1 |-> SubSeq(hex, from, to - ChecksumLen),
                g2 |-> SubSeq(hex, to - ChecksumLen + 1, to)]

(***************************************************************************)
(* The two conversions.                                                    *)
(***************************************************************************)
\* a faulty padding loop, `<=` for `<`: the text is padded to 34 characters
pad_inclusive(enc) ==
    IF Len(enc) <= PadLen THEN Repeat(Ch1, PadLen + 1 - Len(enc)) \o enc ELSE enc
\* a faulty encoder without the padding loop
not_padded(enc) == enc
\* lib.rs:59-61: left-pad the base58 text with '1' to 33 characters
pad_encoded(enc) ==
    IF Len(enc) < PadLen THEN Repeat(Ch1, PadLen - Len(enc)) \o enc ELSE enc

\* lib.rs:55-63: the bytes of the hex text, in base58, padded, after 'V'
encode_bytes(bytes) ==
    IF ~bytes.ok THEN Panic
    ELSE Ok(<<ChV>> \o pad_encoded(encode(bytes.bytes)))

\* a faulty encoder that leaves the checksum out
without_checksum(clear_addr) == hex_decode(clear_addr)
\* lib.rs:47-55: the identifier's text followed by its checksum, hex-decoded
long_address(clear_addr) == hex_decode(clear_addr \o checksum_of(clear_addr))

\* lib.rs:33-64
eth_to_vlx(address) ==
    IF Len(address) = 0 THEN Err(InvalidFormat)
    ELSE IF ~starts_with(address, <<Ch0, ChLowerX>>) THEN Err(InvalidFormat)
    ELSE encode_bytes(long_address(to_lowercase(get_from(address, 2))))

\* a faulty decoder that drops the excess digits without looking at them
strip_unchecked(match_addr) ==
    IF Len(match_addr) > IdHexLen
    THEN [ok |-> TRUE, addr |-> get_from(match_addr, Len(match_addr) - IdHexLen)]
    ELSE [ok |-> TRUE, addr |-> match_addr]
\* a faulty decoder that keeps the body as it finds it
keep_body(match_addr) == [ok |-> TRUE, addr |-> match_addr]
\* lib.rs:106-116: a body longer than 40 digits must start with zeros, which
\* are dropped; Err otherwise
strip_padding(match_addr) ==
    IF Len(match_addr) > IdHexLen
    THEN IF starts_with(match_addr, Repeat(Ch0, Len(match_addr) - IdHexLen))
         THEN [ok |-> TRUE, addr |-> get_from(match_addr, Len(match_addr) - IdHexLen)]
         ELSE [ok |-> FALSE, addr |-> <<>>]
    ELSE [ok |-> TRUE, addr |-> match_addr]

\* lib.rs:106-128: the stripped body must hash to the checksum
verify_checksum(match_addr, checksum) ==
    IF ~match_addr.ok THEN Err(InvalidFormat)
    ELSE IF checksum_of(match_addr.addr) # checksum THEN Err(ChecksumMismatch)
    ELSE Ok(<<Ch0, ChLowerX>> \o match_addr.addr)

\* lib.rs:98-128: no match panics; a match has its three groups
split_checksum(caps) ==
    IF ~caps.matched THEN Panic
    ELSE IF caps.len # CapsLen THEN Err(InvalidFormat)
    ELSE verify_checksum(strip_padding(caps.g1), caps.g2)

\* lib.rs:89-128: the payload must decode; its bytes are split as hex text
decode_payload(decode_addr) ==
    IF ~decode_addr.some THEN Err(InvalidFormat)
    ELSE split_checksum(captures(hex_encode(decode_addr.bytes)))

\* lib.rs:75-129
vlx_to_eth(address) ==
    IF Len(address) = 0 THEN Err(InvalidFormat)
    ELSE IF ~starts_with(address, <<ChV>>) THEN Err(InvalidFormat)
    ELSE decode_payload(decode(get_from(address, 1)))

(***************************************************************************)
(* The test vectors of tests::it_works.                                    *)
(***************************************************************************)
\* lib.rs:137-145
TestEth == <<
    \* 0x32Be343B94f860124dC4fEe278FDCBD38C102D88
    <<48, 120, 51, 50, 66, 101, 51, 52, 51, 66, 57, 52, 102, 56, 54, 48, 49, 50, 52, 100, 67,
       52, 102, 69, 101, 50, 55, 56, 70, 68, 67, 66, 68, 51, 56, 67, 49, 48, 50, 68, 56, 56>>,
    \* 0x000000000000000000000000000000000000000f
    <<48, 120, 48, 48, 48, 48, 48, 48, 48, 48, 48, 48, 48, 48, 48, 48, 48, 48, 48, 48, 48,
       48, 48, 48, 48, 48, 48, 48, 48, 48, 48, 48, 48, 48, 48, 48, 48, 48, 48, 48, 48, 102>>,
    \* 0xf000000000000000000000000000000000000000
    <<48, 120, 102, 48, 48, 48, 48, 48, 48, 48, 48, 48, 48, 48, 48, 48, 48, 48, 48, 48, 48,
       48, 48, 48, 48, 48, 48, 48, 48, 48, 48, 48, 48, 48, 48, 48, 48, 48, 48, 48, 48, 48>>,
    \* 0x0000000000000000000000000000000000000001
    <<48, 120, 48, 48, 48, 48, 48, 48, 48, 48, 48, 48, 48, 48, 48, 48, 48, 48, 48, 48, 48,
       48, 48, 48, 48, 48, 48, 48, 48, 48, 48, 48, 48, 48, 48, 48, 48, 48, 48, 48, 48, 49>>,
    \* 0x1000000000000000000000000000000000000000
    <<48, 120, 49, 48, 48, 48, 48, 48, 48, 48, 48, 48, 48, 48, 48, 48, 48, 48, 48, 48, 48,
       48, 48, 48, 48, 48, 48, 48, 48, 48, 48, 48, 48, 48, 48, 48, 48, 48, 48, 48, 48, 48>>,
    \* 0x0000000000000000000000000000000000000000
    <<48, 120, 48, 48, 48, 48, 48, 48, 48, 48, 48, 48, 48, 48, 48, 48, 48, 48, 48, 48, 48,
       48, 48, 48, 48, 48, 48, 48, 48, 48, 48, 48, 48, 48, 48, 48, 48, 48, 48, 48, 48, 48>>,
    \* 0xffffffffffffffffffffffffffffffffffffffff
    <<48, 120, 102, 102, 102, 102, 102, 102, 102, 102, 102, 102, 102, 102, 102, 102, 102, 102, 102, 102, 102,
       102, 102, 102, 102, 102, 102, 102, 102, 102, 102, 102, 102, 102, 102, 102, 102, 102, 102, 102, 102, 102>> >>
\* lib.rs:147-155
TestVlx == <<
    \* V5dJeCa7bmkqmZF53TqjRbnB4fG6hxuu4f
    <<86, 53, 100, 74, 101, 67, 97, 55, 98, 109, 107, 113, 109, 90, 70, 53, 51, 84, 113, 106, 82,
       98, 110, 66, 52, 102, 71, 54, 104, 120, 117, 117, 52, 102>>,
    \* V111111111111111111111111112jSS6vy
    <<86, 49, 49, 49, 49, 49, 49, 49, 49, 49, 49, 49, 49, 49, 49, 49, 49, 49, 49, 49, 49,
       49, 49, 49, 49, 49, 49, 50, 106, 83, 83, 54, 118, 121>>,
    \* VNt1B3HD3MghPihCxhwMxNKRerBPPbiwvZ
    <<86, 78, 116, 49, 66, 51, 72, 68, 51, 77, 103, 104, 80, 105, 104, 67, 120, 104, 119, 77, 120,
       78, 75, 82, 101, 114, 66, 80, 80, 98, 105, 119, 118, 90>>,
    \* V111111111111111111111111111CdXjnE
    <<86, 49, 49, 49, 49, 49, 49, 49, 49, 49, 49, 49, 49, 49, 49, 49, 49, 49, 49, 49, 49,
       49, 49, 49, 49, 49, 49, 49, 67, 100, 88, 106, 110, 69>>,
    \* V2Tbp525fpnBRiSt4iPxXkxMyf5ZX7bGAJ
    <<86, 50, 84, 98, 112, 53, 50, 53, 102, 112, 110, 66, 82, 105, 83, 116, 52, 105, 80, 120, 88,
       107, 120, 77, 121, 102, 53, 90, 88, 55, 98, 71, 65, 74>>,
    \* V1111111111111111111111111113iMDfC
    <<86, 49, 49, 49, 49, 49, 49, 49, 49, 49, 49, 49, 49, 49, 49, 49, 49, 49, 49, 49, 49,
       49, 49, 49, 49, 49, 49, 49, 51, 105, 77, 68, 102, 67>>,
    \* VQLbz7JHiBTspS962RLKV8GndWFwdcRndD
    <<86, 81, 76, 98, 122, 55, 74, 72, 105, 66, 84, 115, 112, 83, 57, 54, 50, 82, 76, 75, 86,
       56, 71, 110, 100, 87, 70, 119, 100, 99, 82, 110, 100, 68>> >>

(***************************************************************************)
(* The inputs the caller draws from.                                       *)
(***************************************************************************)
\* how many different byte patterns fill the generated identifiers
MaxSeed == 2
\* how many '1' characters the caller adds in front of an accepted payload
MaxPad == 2

Prefix0x == <<Ch0, ChLowerX>>
PrefixV == <<ChV>>

\* byte i of the pattern `seed`; never zero
PatternByte(seed, i) == 1 + ((97 * seed + 59 * i) % 255)
\* the hex text of an identifier of n bytes: z zero bytes, then pattern bytes
HexId(n, z, seed) ==
    hex_encode([i \in 1..n |-> IF i <= z THEN 0 ELSE PatternByte(seed, i)])
UpperChar(c) == IF c >= ChLowerA /\ c <= ChLowerF THEN c - (ChLowerA - ChUpperA) ELSE c
Upper(s) == [i \in 1..Len(s) |-> UpperChar(s[i])]
\* s with its i-th character replaced by c
Replace(s, i, c) == [j \in 1..Len(s) |-> IF j = i THEN c ELSE s[j]]

\* identifiers of 20 bytes (40 hex digits), with and without leading zero bytes
FullIds == {HexId(20, z, seed) : z \in {0, 1, 2, 19, 20}, seed \in 1..MaxSeed}
\* identifiers of fewer than 20 bytes, the empty one included
ShortIds == {HexId(n, z, seed) : n \in {0, 1, 19}, z \in {0, 1}, seed \in 1..MaxSeed}
\* identifiers of more than 20 bytes
LongIds == {HexId(21, z, seed) : z \in {0, 1}, seed \in 1..MaxSeed}

EthInputs ==
    {TestEth[i] : i \in 1..Len(TestEth)}
    \cup {Prefix0x \o h : h \in FullIds \cup ShortIds \cup LongIds}
    \cup {Prefix0x \o Upper(h) : h \in FullIds}
    \* no prefix, a wrong prefix, the other format's text
    \cup {<<>>, <<Ch0>>, <<ChLowerX, Ch0>> \o HexId(20, 0, 1), <<Ch0, ChLowerX - 32>> \o HexId(20, 0, 1),
          HexId(20, 0, 1), TestVlx[1]}
    \* an odd number of hex digits
    \cup {Prefix0x \o SubSeq(h, 1, Len(h) - 1) : h \in {HexId(20, 0, 1), HexId(1, 0, 1)}}
    \* a character that is no hex digit
    \cup {Prefix0x \o Replace(HexId(20, 0, 1), i, ChLowerF + 1) : i \in {1, 40}}
    \cup {Prefix0x \o <<ChLowerX, ChLowerX>>}

\* the base58 text of identifier h followed by its checksum, not padded
Unpadded(h) == encode(hex_decode(h \o checksum_of(h)).bytes)
\* the same, padded as the encoder pads it
Canonical(h) == pad_encoded(Unpadded(h))

VlxInputs ==
    {TestVlx[i] : i \in 1..Len(TestVlx)}
    \* valid checksums, without the padding and with it
    \cup {PrefixV \o Unpadded(h) : h \in FullIds \cup ShortIds}
    \cup {PrefixV \o Unpadded(get_from(TestEth[i], 2)) : i \in {2, 4, 6}}
    \cup {PrefixV \o Canonical(h) : h \in FullIds}
    \* a wrong checksum: the last character changed
    \cup {Replace(TestVlx[i], Len(TestVlx[i]), BITCOIN[1]) : i \in {1, 6}}
    \* 25 bytes and more, the first ones not zero
    \cup {PrefixV \o <<BITCOIN[2]>> \o Canonical(HexId(20, 0, 1)),
          PrefixV \o encode(<<1>> \o hex_decode(HexId(20, 1, 1) \o checksum_of(HexId(20, 1, 1))).bytes)}
    \* no prefix, a wrong prefix, the other format's text
    \cup {<<>>, <<ChV + 32>> \o get_from(TestVlx[1], 1), get_from(TestVlx[1], 1), TestEth[1]}
    \* characters outside the alphabet: '0', 'l', ' '
    \cup {Replace(TestVlx[1], i, c) : i \in {2, 34}, c \in {Ch0, 108}}
    \cup {PrefixV \o <<32>>}
    \* payloads of at most 4 bytes, the empty one included
    \cup {PrefixV \o p : p \in {<<>>, <<BITCOIN[1]>>, <<BITCOIN[2]>>, <<BITCOIN[58], BITCOIN[58]>>,
                                Repeat(BITCOIN[1], 4), Repeat(BITCOIN[58], 5)}}
    \* payloads of 5 bytes: the shortest ones with a body
    \cup {PrefixV \o Repeat(BITCOIN[1], 5), PrefixV \o Repeat(BITCOIN[58], 6)}

(***************************************************************************)
(* The caller.                                                             *)
(***************************************************************************)
VARIABLES
    call,   \* the last call: the function, its argument, its result
    prev,   \* the call before it, when the last call was made from its result
    link    \* how the last call was made

vars == <<call, prev, link>>

NoCall == [fn |-> "none", arg |-> <<>>, ret |-> [kind |-> "None", val |-> <<>>, err |-> ""]]

CallOf(f, a) ==
    [fn |-> f, arg |-> a,
     ret |-> IF f = "eth_to_vlx" THEN eth_to_vlx(a) ELSE vlx_to_eth(a)]

Init ==
    /\ call = NoCall
    /\ prev = NoCall
    /\ link = "idle"

\* eth_to_vlx(a) for an input a
CallEthToVlx ==
    /\ link = "idle"
    /\ \E a \in EthInputs : call' = CallOf("eth_to_vlx", a)
    /\ prev' = NoCall
    /\ link' = "fresh"

\* vlx_to_eth(a) for an input a
CallVlxToEth ==
    /\ link = "idle"
    /\ \E a \in VlxInputs : call' = CallOf("vlx_to_eth", a)
    /\ prev' = NoCall
    /\ link' = "fresh"

\* vlx_to_eth(eth_to_vlx(a).unwrap()), as in lib.rs:157-161
DecodeEncoded ==
    /\ link = "fresh"
    /\ call.fn = "eth_to_vlx"
    /\ call.ret.kind = "Ok"
    /\ call' = CallOf("vlx_to_eth", call.ret.val)
    /\ prev' = call
    /\ link' = "roundtrip"

\* eth_to_vlx(vlx_to_eth(a).unwrap()), as in lib.rs:163-167
EncodeDecoded ==
    /\ link = "fresh"
    /\ call.fn = "vlx_to_eth"
    /\ call.ret.kind = "Ok"
    /\ call' = CallOf("eth_to_vlx", call.ret.val)
    /\ prev' = call
    /\ link' = "roundtrip"

\* vlx_to_eth of an accepted address with k more '1' in front of its payload
DecodeOverPadded ==
    /\ link = "fresh"
    /\ call.fn = "vlx_to_eth"
    /\ call.ret.kind = "Ok"
    /\ \E k \in 1..MaxPad :
          call' = CallOf("vlx_to_eth",
                         PrefixV \o Repeat(BITCOIN[1], k) \o get_from(call.arg, 1))
    /\ prev' = call
    /\ link' = "overpad"

\* the caller is done with the result
Return ==
    /\ link # "idle"
    /\ call' = NoCall
    /\ prev' = NoCall
    /\ link' = "idle"

Next ==
    \/ CallEthToVlx
    \/ CallVlxToEth
    \/ DecodeEncoded
    \/ EncodeDecoded
    \/ DecodeOverPadded
    \/ Return

Spec == Init /\ [][Next]_vars

(***************************************************************************)
(* What the properties speak of.  These definitions read the texts         *)
(* directly, character by character, and not through the conversions.      *)
(***************************************************************************)
\* a starts with the two characters "0x"
Has0x(a) == Len(a) >= 2 /\ a[1] = 48 /\ a[2] = 120
\* a starts with the character 'V'
HasV(a) == Len(a) >= 1 /\ a[1] = 86
\* the text after the first n characters
After(a, n) == [i \in 1..(Len(a) - n) |-> a[i + n]]
\* '0'..'9', 'a'..'f'
LowerHexChar(c) == (c >= 48 /\ c <= 57) \/ (c >= 97 /\ c <= 102)
\* '0'..'9', 'a'..'f', 'A'..'F'
HexChar(c) == LowerHexChar(c) \/ (c >= 65 /\ c <= 70)
AllHex(s) == \A i \in 1..Len(s) : HexChar(s[i])
\* the text with 'A'..'Z' turned into 'a'..'z'
Lowered(s) == [i \in 1..Len(s) |-> IF s[i] >= 65 /\ s[i] <= 90 THEN s[i] + 32 ELSE s[i]]
\* "0x" and exactly 40 hexadecimal characters
IsIdentifier(a) == Has0x(a) /\ Len(a) = 42 /\ AllHex(After(a, 2))
\* "0x" and an even number, less than 40, of hexadecimal characters
IsShortIdentifier(a) ==
    Has0x(a) /\ Len(a) < 42 /\ Len(a) % 2 = 0 /\ AllHex(After(a, 2))
\* the hex text of the bytes the payload of e decodes to
PayloadHex(e) == hex_encode(decode(After(e, 1)).bytes)
\* the payload of e is made of characters of the alphabet
PayloadDecodes(e) == decode(After(e, 1)).some
\* the body the decoder splits off the payload of e: all but the last 8 digits
BodyOf(e) == SubSeq(PayloadHex(e), 1, Len(PayloadHex(e)) - 8)
\* the last 8 digits of the payload of e
SuffixOf(e) == SubSeq(PayloadHex(e), Len(PayloadHex(e)) - 7, Len(PayloadHex(e)))
\* the first n characters of s are all '0'
ZeroLed(s, n) == \A i \in 1..n : s[i] = 48
\* the body of e after the decoder's normalisation
Stripped(body) ==
    IF Len(body) > 40 THEN SubSeq(body, Len(body) - 39, Len(body)) ELSE body
\* the first 8 hex digits of the hash of the hash of the text
DoubleHashPrefix(s) == SubSeq(hash_sha256(hash_sha256(s)), 1, 8)

(***************************************************************************)
(* C1.  Round trip hex -> encoded -> hex.  For every h of exactly 40       *)
(* hexadecimal characters, in upper, lower or mixed case, eth_to_vlx of    *)
(* "0x" + h returns Ok(e), and vlx_to_eth(e) returns Ok("0x" + h in lower  *)
(* case); identifiers with leading zero bytes, whose base58 text is        *)
(* shorter than 33 characters and is padded, are included.                 *)
(***************************************************************************)
RoundTripFromHex ==
    /\ (call.fn = "eth_to_vlx" /\ IsIdentifier(call.arg)) => call.ret.kind = "Ok"
    /\ (link = "roundtrip" /\ prev.fn = "eth_to_vlx" /\ IsIdentifier(prev.arg))
          => call.ret = Ok(<<48, 120>> \o Lowered(After(prev.arg, 2)))

\* an identifier in upper case with a leading zero byte has made the round trip
RoundTripFromHexSeen ==
    /\ link = "roundtrip"
    /\ prev.fn = "eth_to_vlx"
    /\ IsIdentifier(prev.arg)
    /\ prev.arg[3] = 48 /\ prev.arg[4] = 48
    /\ After(prev.arg, 2) # Lowered(After(prev.arg, 2))
    /\ Len(Unpadded(Lowered(After(prev.arg, 2)))) < 33
    /\ call.ret = Ok(<<48, 120>> \o Lowered(After(prev.arg, 2)))

(***************************************************************************)
(* C2, as the specification states it.  Round trip encoded -> hex ->       *)
(* encoded: for every accepted address e whose decoded body is exactly 40  *)
(* hex characters (the decoder strips nothing), vlx_to_eth(e) returns      *)
(* Ok(a) and eth_to_vlx(a) returns Ok(e).                                  *)
(***************************************************************************)
RoundTripFromEncodedBody40 ==
    (/\ link = "roundtrip"
     /\ prev.fn = "vlx_to_eth"
     /\ prev.ret.kind = "Ok"
     /\ Len(BodyOf(prev.arg)) = 40)
        => call.ret = Ok(prev.arg)

(***************************************************************************)
(* C2, as the code has it.  Round trip encoded -> hex -> encoded: for      *)
(* every accepted address e of exactly 34 characters ('V' and 33 base58    *)
(* characters) that decodes to an identifier of 40 hex characters,         *)
(* vlx_to_eth(e) returns Ok(a) and eth_to_vlx(a) returns Ok(e).  The       *)
(* encoder always pads to 33 characters, so an accepted address that is    *)
(* shorter does not come back.                                             *)
(***************************************************************************)
RoundTripFromEncodedPadded ==
    (/\ link = "roundtrip"
     /\ prev.fn = "vlx_to_eth"
     /\ prev.ret.kind = "Ok"
     /\ Len(prev.ret.val) = 42
     /\ Len(prev.arg) = 34)
        => call.ret = Ok(prev.arg)

\* an address of 34 characters with a body of exactly 40 digits has come back
RoundTripFromEncodedSeen ==
    /\ link = "roundtrip"
    /\ prev.fn = "vlx_to_eth"
    /\ prev.ret.kind = "Ok"
    /\ Len(prev.arg) = 34
    /\ Len(BodyOf(prev.arg)) = 40
    /\ call.fn = "eth_to_vlx"
    /\ call.ret = Ok(prev.arg)

(***************************************************************************)
(* C3.  Encoder hex validation: for every input that starts with "0x" and  *)
(* whose remainder, in lower case and followed by the 8 characters of the  *)
(* checksum, has an odd length or holds a character that is no hex digit,  *)
(* eth_to_vlx returns Err(InvalidFormat) to its caller; it does not        *)
(* fault.                                                                  *)
(***************************************************************************)
EncoderRejectsBadHex ==
    (/\ call.fn = "eth_to_vlx"
     /\ Has0x(call.arg)
     /\ \/ (Len(After(call.arg, 2)) + 8) % 2 # 0
        \/ ~AllHex(Lowered(After(call.arg, 2))))
        => call.ret = Err(InvalidFormat)

(***************************************************************************)
(* C4.  Decoder short payload: for every input that starts with 'V' and    *)
(* whose payload decodes to bytes with fewer than 9 hex characters (4      *)
(* bytes or fewer, the empty payload included), vlx_to_eth returns         *)
(* Err(InvalidFormat) to its caller; it does not fault.                    *)
(***************************************************************************)
DecoderRejectsShortPayload ==
    (/\ call.fn = "vlx_to_eth"
     /\ HasV(call.arg)
     /\ PayloadDecodes(call.arg)
     /\ Len(PayloadHex(call.arg)) < 9)
        => call.ret = Err(InvalidFormat)

(***************************************************************************)
(* C5.  Checksum verification: for every input of vlx_to_eth that passes   *)
(* the format checks (the prefix 'V', the alphabet, at least 9 hex         *)
(* characters, well-formed zero padding) the call returns Ok if and only   *)
(* if the first 8 hex characters of the double hash of the body, after     *)
(* the strip, are the last 8 hex characters of the payload, and            *)
(* Err(ChecksumMismatch) otherwise; every format failure is reported as    *)
(* Err(InvalidFormat), never as Err(ChecksumMismatch).                     *)
(***************************************************************************)
PassesFormat(e) ==
    /\ HasV(e)
    /\ PayloadDecodes(e)
    /\ Len(PayloadHex(e)) >= 9
    /\ (Len(BodyOf(e)) > 40 => ZeroLed(BodyOf(e), Len(BodyOf(e)) - 40))

ChecksumVerification ==
    call.fn = "vlx_to_eth" =>
        IF PassesFormat(call.arg)
        THEN IF DoubleHashPrefix(Stripped(BodyOf(call.arg))) = SuffixOf(call.arg)
             THEN call.ret.kind = "Ok"
             ELSE call.ret = Err(ChecksumMismatch)
        ELSE call.ret = Err(InvalidFormat)

(***************************************************************************)
(* C6.  Encoder output: for every input "0x" + h with h of exactly 40      *)
(* hexadecimal characters, eth_to_vlx returns 'V' followed by exactly 33   *)
(* base58 characters: the base58 text of the 24 bytes (the identifier and  *)
(* the checksum), which is never longer than 33 characters, with '1' put   *)
(* in front of it up to 33 characters.  The all-zero identifier gives 34   *)
(* characters that begin "V1111".                                          *)
(***************************************************************************)
\* the base58 text of the 24 bytes of the identifier h and its checksum
Base58Of24(h) == encode(hex_decode(h \o DoubleHashPrefix(h)).bytes)

EncoderOutputPadded ==
    (call.fn = "eth_to_vlx" /\ IsIdentifier(call.arg)) =>
        /\ Len(Base58Of24(Lowered(After(call.arg, 2)))) <= 33
        /\ call.ret =
              Ok(<<86>>
                 \o [i \in 1..(33 - Len(Base58Of24(Lowered(After(call.arg, 2))))) |-> 49]
                 \o Base58Of24(Lowered(After(call.arg, 2))))
        /\ Len(call.ret.val) = 34
        /\ \A i \in 2..34 : \E j \in 1..58 : BITCOIN[j] = call.ret.val[i]
        /\ (ZeroLed(After(call.arg, 2), 40)
               => SubSeq(call.ret.val, 1, 5) = <<86, 49, 49, 49, 49>>)

\* the all-zero identifier has been encoded: V1111111111111111111111111113iMDfC
EncoderOutputPaddedSeen ==
    /\ call.fn = "eth_to_vlx"
    /\ IsIdentifier(call.arg)
    /\ ZeroLed(After(call.arg, 2), 40)
    /\ call.ret = Ok(TestVlx[6])
    /\ Len(Base58Of24(After(call.arg, 2))) < 33

(***************************************************************************)
(* C7.  Prefix rejection: eth_to_vlx returns Err(InvalidFormat) for the    *)
(* empty string and for every input that does not start with "0x";         *)
(* vlx_to_eth returns Err(InvalidFormat) for the empty string and for      *)
(* every input that does not start with 'V'; no text is returned.          *)
(***************************************************************************)
PrefixRejection ==
    /\ (call.fn = "eth_to_vlx" /\ ~Has0x(call.arg))
          => (call.ret = Err(InvalidFormat) /\ call.ret.val = <<>>)
    /\ (call.fn = "vlx_to_eth" /\ ~HasV(call.arg))
          => (call.ret = Err(InvalidFormat) /\ call.ret.val = <<>>)

\* the text "0", which starts like "0x" and is not it, has been refused
PrefixRejectionSeen ==
    /\ call.fn = "eth_to_vlx"
    /\ call.arg = <<48>>
    /\ call.ret = Err(InvalidFormat)

(***************************************************************************)
(* C8.  Decoder body normalisation: the decoded hex text is split into a   *)
(* body and the last 8 characters.  A body of more than 40 characters must *)
(* start with (len - 40) characters '0', and its last 40 characters are    *)
(* the identifier; the call returns Err(InvalidFormat) when one of the     *)
(* excess characters is not '0'.  A body of 40 characters or fewer is used *)
(* as it is.  So every Ok result is "0x" and at most 40 lowercase hex      *)
(* characters.                                                             *)
(***************************************************************************)
BodyNormalisation ==
    /\ (/\ call.fn = "vlx_to_eth"
        /\ HasV(call.arg)
        /\ PayloadDecodes(call.arg)
        /\ Len(PayloadHex(call.arg)) >= 9)
          => IF Len(BodyOf(call.arg)) > 40
                /\ ~ZeroLed(BodyOf(call.arg), Len(BodyOf(call.arg)) - 40)
             THEN call.ret = Err(InvalidFormat)
             ELSE \/ call.ret = Ok(<<48, 120>> \o Stripped(BodyOf(call.arg)))
                  \/ call.ret = Err(ChecksumMismatch)
    /\ (call.fn = "vlx_to_eth" /\ call.ret.kind = "Ok")
          => /\ Has0x(call.ret.val)
             /\ Len(call.ret.val) <= 42
             /\ \A i \in 3..Len(call.ret.val) : LowerHexChar(call.ret.val[i])

\* a body of more than 40 digits has been cut to its last 40
BodyNormalisationSeen ==
    /\ call.fn = "vlx_to_eth"
    /\ HasV(call.arg)
    /\ PayloadDecodes(call.arg)
    /\ Len(PayloadHex(call.arg)) >= 9
    /\ Len(BodyOf(call.arg)) > 40
    /\ call.ret = Ok(<<48, 120>> \o Stripped(BodyOf(call.arg)))

(***************************************************************************)
(* C9.  The decoder accepts over-padded addresses: for every address       *)
(* "V" + p on which vlx_to_eth returns Ok(r), r with an identifier of 40   *)
(* characters, and for every k >= 1, vlx_to_eth of "V", k copies of '1'    *)
(* and p returns Ok(r) as well; different encoded texts decode to the      *)
(* same hex address.                                                       *)
(***************************************************************************)
OverPaddedDecodesAlike ==
    (/\ link = "overpad"
     /\ prev.ret.kind = "Ok"
     /\ Len(prev.ret.val) = 42)
        => (call.ret = prev.ret /\ call.arg # prev.arg)

\* an address with two more '1' has decoded to the result of the address
OverPaddedDecodesAlikeSeen ==
    /\ link = "overpad"
    /\ prev.ret.kind = "Ok"
    /\ Len(prev.ret.val) = 42
    /\ Len(call.arg) = Len(prev.arg) + 2
    /\ call.arg[2] = 49 /\ call.arg[3] = 49
    /\ After(call.arg, 3) = After(prev.arg, 1)
    /\ call.ret = prev.ret

(***************************************************************************)
(* C10.  Short identifiers are encoded and do not come back: for every     *)
(* hex text h of even length less than 40, the empty one included,         *)
(* eth_to_vlx("0x" + h) returns Ok(e) with e of exactly 34 characters, and *)
(* vlx_to_eth(e) does not return Ok("0x" + h): the decoder sees a body of  *)
(* at least 40 characters, strips it to h with '0' in front up to 40       *)
(* characters, and returns Err(ChecksumMismatch) or an identifier of 40    *)
(* characters.                                                             *)
(***************************************************************************)
ShortIdentifierLost ==
    /\ (call.fn = "eth_to_vlx" /\ IsShortIdentifier(call.arg))
          => (call.ret.kind = "Ok" /\ Len(call.ret.val) = 34)
    /\ (link = "roundtrip" /\ prev.fn = "eth_to_vlx" /\ IsShortIdentifier(prev.arg))
          => /\ call.ret # Ok(prev.arg)
             /\ Len(BodyOf(call.arg)) >= 40
             /\ Stripped(BodyOf(call.arg))
                   = [i \in 1..(42 - Len(prev.arg)) |-> 48] \o Lowered(After(prev.arg, 2))
             /\ \/ call.ret = Err(ChecksumMismatch)
                \/ (call.ret.kind = "Ok" /\ Len(call.ret.val) = 42)

\* the encoding of the one-byte identifier has been decoded
ShortIdentifierLostSeen ==
    /\ link = "roundtrip"
    /\ prev.fn = "eth_to_vlx"
    /\ IsShortIdentifier(prev.arg)
    /\ Len(prev.arg) = 4
    /\ Len(prev.ret.val) = 34
    /\ call.ret = Err(ChecksumMismatch)
====
